---------------------------- MODULE Spec2Model ----------------------------
(***************************************************************************)
(* Model of src/data_model.py: the coordinate variants, the scalar         *)
(* coordinate factory, the DMDimensions aggregate and its specializations, *)
(* and the coordinate <-> bounds link.                                     *)
(*                                                                         *)
(* Objects are referred to by identity.  Coordinate objects live in        *)
(* `heap` (index = identity), DMCoordinateBounds objects made by the       *)
(* bounds factory live in `boundsObjs` (index = identity).  A reference    *)
(* that is None in the program is the value None (0) here.                 *)
(***************************************************************************)
EXTENDS Integers, Sequences, FiniteSets, TLC

VARIABLES
    heap,        \* coordinate objects; heap[i].bounds is the mutable back-reference
    boundsObjs,  \* DMCoordinateBounds objects made by DMCoordinateBounds.from_coordinate
    dimsObj,     \* the DMDimensions (or subclass) instance the caller holds, or NoObject
    last         \* the last call: its operation, arguments, result and error

vars == <<heap, boundsObjs, dimsObj, last>>

----------------------------------------------------------------------------
(* Bounds of the model *)

MaxDims == 3        \* longest `dims` tuple handed to a constructor
MaxBounds == 2      \* number of bounds objects the factory may create
MaxDepth == 4       \* interpreter recursion limit, in nested asdict calls

----------------------------------------------------------------------------
(* Values *)

None == 0

NoObject == [cls |-> "None"]

\* datelabel.AbstractDateRange values are opaque and compared by equality.
FXDateRange == "FXDateRange"
NoRange == "None"
DateRanges == {"1980-1990", "2000-2010"}

ScalarValues == {500, 850}

BoundsNames == {"lat_bnds"}

\* DMAxis = MDTFEnum('DMAxis', 'X Y Z T BOUNDS OTHER')
DMAxis == {"X", "Y", "Z", "T", "BOUNDS", "OTHER"}

spatiotemporal_names == <<"X", "Y", "Z", "T">>

SpatioTemporal == {spatiotemporal_names[i] : i \in DOMAIN spatiotemporal_names}

----------------------------------------------------------------------------
(* Classes *)

\* Method resolution order of each class, as a set: the class and its bases.
Bases(cls) ==
    CASE cls = "DMCoordinate" -> {"DMCoordinate", "object"}
      [] cls = "DMLongitudeCoordinate" -> {"DMLongitudeCoordinate", "object"}
      [] cls = "DMLatitudeCoordinate" -> {"DMLatitudeCoordinate", "object"}
      [] cls = "DMVerticalCoordinate" -> {"DMVerticalCoordinate", "object"}
      [] cls = "DMParametricVerticalCoordinate" ->
            {"DMParametricVerticalCoordinate", "DMVerticalCoordinate", "object"}
      [] cls = "DMTimeCoordinate" -> {"DMTimeCoordinate", "object"}
      [] cls = "DMBoundsDimension" -> {"DMBoundsDimension", "object"}
      [] cls = "DMScalarCoordinateMixin" -> {"DMScalarCoordinateMixin", "object"}
      [] cls = "DMScalarCoordinate" ->
            {"DMScalarCoordinate", "DMCoordinate", "DMScalarCoordinateMixin", "object"}
      [] cls = "DMScalarVerticalCoordinate" ->
            {"DMScalarVerticalCoordinate", "DMVerticalCoordinate",
             "DMScalarCoordinateMixin", "object"}
      [] cls = "DMDimensions" -> {"DMDimensions", "object"}
      [] cls = "DMAuxiliaryCoordinate" ->
            {"DMAuxiliaryCoordinate", "DMDimensions", "object"}
      [] cls = "DMCoordinateBounds" ->
            {"DMCoordinateBounds", "DMAuxiliaryCoordinate", "DMDimensions", "object"}
      [] cls = "DMVariable" -> {"DMVariable", "DMDimensions", "object"}

\* issubclass(a, b)
issubclass(a, b) == b \in Bases(a)

\* The dataclass fields of each coordinate class (annotated names only; a
\* name assigned without annotation is a class attribute, not a field).
Fields(cls) ==
    CASE cls = "DMCoordinate" -> {"name", "standard_name", "units", "axis", "bounds"}
      [] cls = "DMLongitudeCoordinate" -> {"name", "bounds"}
      [] cls = "DMLatitudeCoordinate" -> {"name", "bounds"}
      [] cls = "DMVerticalCoordinate" ->
            {"name", "standard_name", "units", "positive", "bounds"}
      [] cls = "DMParametricVerticalCoordinate" ->
            {"name", "standard_name", "units", "positive", "bounds",
             "computed_standard_name", "long_name", "formula_terms"}
      [] cls = "DMTimeCoordinate" ->
            {"name", "units", "calendar", "range", "frequency", "bounds"}
      [] cls = "DMBoundsDimension" -> {"name"}
      [] cls = "DMScalarCoordinate" ->
            {"name", "standard_name", "units", "axis", "bounds", "value"}
      [] cls = "DMScalarVerticalCoordinate" ->
            {"name", "standard_name", "units", "positive", "bounds", "value"}

\* The class attributes each coordinate class fixes.
ClassAttrs(cls) ==
    CASE cls = "DMLongitudeCoordinate" ->
            [standard_name |-> "longitude", units |-> "degrees_E", axis |-> "X"]
      [] cls = "DMLatitudeCoordinate" ->
            [standard_name |-> "latitude", units |-> "degrees_N", axis |-> "Y"]
      [] cls \in {"DMVerticalCoordinate", "DMParametricVerticalCoordinate",
                  "DMScalarVerticalCoordinate"} -> [axis |-> "Z"]
      [] cls = "DMTimeCoordinate" -> [standard_name |-> "time", axis |-> "T"]
      [] cls = "DMBoundsDimension" ->
            [standard_name |-> "bounds", units |-> "1", axis |-> "BOUNDS",
             bounds |-> None]
      [] OTHER -> [cls |-> cls]

\* cls(**kwargs) for a coordinate class: the instance's attributes are the
\* keyword arguments plus the attributes the class fixes.
NewCoordinate(cls, kwargs) ==
    LET ca == ClassAttrs(cls)
        names == {"cls"} \cup DOMAIN kwargs \cup DOMAIN ca
    IN  [a \in names |->
            IF a = "cls" THEN cls
            ELSE IF a \in DOMAIN kwargs THEN kwargs[a]
            ELSE ca[a]]

\* The coordinate objects that exist before any operation of the model runs.
Pool == <<
    NewCoordinate("DMLongitudeCoordinate", [name |-> "lon", bounds |-> None]),
    NewCoordinate("DMLatitudeCoordinate", [name |-> "lat", bounds |-> None]),
    NewCoordinate("DMVerticalCoordinate",
        [name |-> "plev", standard_name |-> "air_pressure", units |-> "hPa",
         positive |-> "down", bounds |-> None]),
    NewCoordinate("DMParametricVerticalCoordinate",
        [name |-> "lev", standard_name |-> "atmosphere_sigma_coordinate",
         units |-> "1", positive |-> "down", bounds |-> None,
         computed_standard_name |-> "air_pressure", long_name |-> "",
         formula_terms |-> "sigma: lev ps: ps ptop: ptop"]),
    NewCoordinate("DMTimeCoordinate",
        [name |-> "time", units |-> "days", calendar |-> "noleap",
         range |-> NoRange, frequency |-> "None", bounds |-> None]),
    NewCoordinate("DMTimeCoordinate",
        [name |-> "time", units |-> "days", calendar |-> "noleap",
         range |-> FXDateRange, frequency |-> "fx", bounds |-> None]),
    NewCoordinate("DMTimeCoordinate",
        [name |-> "time", units |-> "days", calendar |-> "noleap",
         range |-> "1980-1990", frequency |-> "mon", bounds |-> None]),
    NewCoordinate("DMCoordinate",
        [name |-> "basin", standard_name |-> "region", units |-> "1",
         axis |-> "OTHER", bounds |-> None]),
    NewCoordinate("DMCoordinate",
        [name |-> "season", standard_name |-> "time", units |-> "1",
         axis |-> "T", bounds |-> None]),
    NewCoordinate("DMBoundsDimension", [name |-> "bnds"]),
    NewCoordinate("DMBoundsDimension", [name |-> "nv"]),
    NewCoordinate("DMScalarVerticalCoordinate",
        [name |-> "plev", standard_name |-> "air_pressure", units |-> "hPa",
         positive |-> "down", bounds |-> None, value |-> 500]),
    NewCoordinate("DMScalarCoordinate",
        [name |-> "time", standard_name |-> "time", units |-> "days",
         axis |-> "T", bounds |-> None, value |-> 0]),
    NewCoordinate("DMScalarCoordinate",
        [name |-> "height", standard_name |-> "height", units |-> "m",
         axis |-> "Z", bounds |-> None, value |-> 2]),
    NewCoordinate("DMScalarCoordinate",
        [name |-> "member", standard_name |-> "realization", units |-> "1",
         axis |-> "OTHER", bounds |-> None, value |-> 2])
>>

\* The coordinates handed to constructors as members of `dims` ...
DimIds == {c \in DOMAIN Pool : ~ issubclass(Pool[c].cls, "DMScalarCoordinateMixin")}

\* ... and as members of `scalar_coords`.
ScalarIds == {c \in DOMAIN Pool : issubclass(Pool[c].cls, "DMScalarCoordinateMixin")}


----------------------------------------------------------------------------
(* DMDimensions and its specializations.  The operators that run inside a
   constructor take the heap h they run against. *)

\* getattr(c.axis, 'name', '')
AxisName(h, c) == h[c].axis

\* Iteration over a set: its members in some order.
RECURSIVE SetToSeq(_)
SetToSeq(S) ==
    IF S = {} THEN <<>>
    ELSE LET x == CHOOSE y \in S : TRUE IN <<x>> \o SetToSeq(S \ {x})

\* itertools.chain(self.dims, self.scalar_coords)
chain(dims, scalar_coords) == dims \o SetToSeq(scalar_coords)

\* The validation loop with the OTHER exemption left out.
RECURSIVE DuplicateAxis_no_exemption(_, _, _)
DuplicateAxis_no_exemption(h, cs, temp_d) ==
    IF cs = <<>> THEN FALSE
    ELSE LET axis == AxisName(h, Head(cs))
         IN  IF axis \in temp_d THEN TRUE
             ELSE DuplicateAxis_no_exemption(h, Tail(cs), temp_d \cup {axis})

\* The validation loop of DMDimensions.__post_init__ over the coordinates cs
\* still to visit, temp_d holding the axis names seen so far: TRUE iff it raises.
RECURSIVE DuplicateAxis(_, _, _)
DuplicateAxis(h, cs, temp_d) ==
    IF cs = <<>> THEN FALSE
    ELSE LET axis == AxisName(h, Head(cs))
         IN  IF axis # "OTHER" /\ axis \in temp_d THEN TRUE
             ELSE DuplicateAxis(h, Tail(cs), temp_d \cup {axis})

\* dict((x, None) for x in DMAxis.spatiotemporal_names)
EmptyAxes == [x \in SpatioTemporal |-> None]

\* for c in cs: if axis in spatiotemporal_names: d[axis] = c
RECURSIVE FillAxes(_, _, _)
FillAxes(h, cs, d) ==
    IF cs = <<>> THEN d
    ELSE LET c == Head(cs)
             axis == AxisName(h, c)
         IN  FillAxes(h, Tail(cs),
                      IF axis \in SpatioTemporal THEN [d EXCEPT ![axis] = c] ELSE d)

\* phys_axes without the overlay of the scalar coordinates.
PhysAxes_no_overlay(h, axes, scalar_coords) == axes

\* self.phys_axes: a copy of axes overlaid with the scalar coordinates.
PhysAxes(h, axes, scalar_coords) == FillAxes(h, SetToSeq(scalar_coords), axes)

\* The validation run over dims alone, the scalar coordinates forgotten.
Dimensions_post_init_dims_only(h, dims, scalar_coords) ==
    IF DuplicateAxis(h, dims, {})
    THEN [err |-> "ValueError: Duplicate definition of axis"]
    ELSE LET axes == FillAxes(h, dims, EmptyAxes)
         IN  [err |-> "none", axes |-> axes,
              phys_axes |-> PhysAxes(h, axes, scalar_coords)]

\* DMDimensions.__post_init__
Dimensions_post_init(h, dims, scalar_coords) ==
    IF DuplicateAxis(h, chain(dims, scalar_coords), {})
    THEN [err |-> "ValueError: Duplicate definition of axis"]
    ELSE LET axes == FillAxes(h, dims, EmptyAxes)
         IN  [err |-> "none", axes |-> axes,
              phys_axes |-> PhysAxes(h, axes, scalar_coords)]

\* The shape test of DMCoordinateBounds.__post_init__ without its BOUNDS half.
ImproperDims_length_only(h, dims) == Len(dims) # 2

\* len(self.dims) != 2 or DMAxis.BOUNDS not in {c.axis for c in self.dims}
ImproperDims(h, dims) ==
    Len(dims) # 2 \/ "BOUNDS" \notin {h[dims[i]].axis : i \in DOMAIN dims}

\* DMCoordinateBounds.__post_init__
CoordinateBounds_post_init(h, dims, scalar_coords) ==
    LET r == Dimensions_post_init(h, dims, scalar_coords)
    IN  IF r.err # "none" THEN r
        ELSE IF scalar_coords # {}
        THEN [err |-> "ValueError: with scalar coordinates"]
        ELSE IF ImproperDims(h, dims)
        THEN [err |-> "ValueError: with improper dimensions"]
        ELSE r

\* cls(**kwargs) for DMDimensions and its subclasses: the generated __init__
\* assigns the fields and calls __post_init__; when that raises there is no object.
NewDims(h, cls, kwargs) ==
    LET r == IF cls = "DMCoordinateBounds"
             THEN CoordinateBounds_post_init(h, kwargs.dims, kwargs.scalar_coords)
             ELSE Dimensions_post_init(h, kwargs.dims, kwargs.scalar_coords)
    IN  IF r.err # "none" THEN [err |-> r.err, obj |-> NoObject]
        ELSE [err |-> "none",
              obj |-> [a \in {"cls", "axes", "phys_axes"} \cup DOMAIN kwargs |->
                         IF a = "cls" THEN cls
                         ELSE IF a = "axes" THEN r.axes
                         ELSE IF a = "phys_axes" THEN r.phys_axes
                         ELSE kwargs[a]]]

\* DMDimensions.X, .Y, .Z, .T
X(d) == d.axes["X"]
Y(d) == d.axes["Y"]
Z(d) == d.axes["Z"]
T(d) == d.axes["T"]

\* The sentinel test against the "no range set" default instead.
Time_is_static_default(c) == heap[c].range = NoRange

\* DMTimeCoordinate.is_static
Time_is_static(c) == heap[c].range = FXDateRange

\* DMDimensions.is_static; only DMTimeCoordinate defines is_static, so any
\* other coordinate in the T slot raises on the attribute lookup.
is_static(d) ==
    IF T(d) = None THEN [err |-> "none", val |-> TRUE]
    ELSE IF ~ issubclass(heap[T(d)].cls, "DMTimeCoordinate")
    THEN [err |-> "AttributeError: no attribute is_static"]
    ELSE [err |-> "none", val |-> Time_is_static(T(d))]

\* dataclasses.replace(obj, range=new_range)
replace_range(obj, new_range) == [obj EXCEPT !.range = new_range]

\* self.T = value.  T is a property defined with a getter alone, so the
\* assignment raises and the instance is left as it was.
set_T(d, value) == [err |-> "AttributeError: can't set attribute", obj |-> d]

\* The accessor returning the last member of dims whatever its axis.
coord_last(b) == [err |-> "none", val |-> b.dims[Len(b.dims)]]

\* DMCoordinateBounds.coord
coord(b) ==
    LET hits == {i \in DOMAIN b.dims : heap[b.dims[i]].axis # "BOUNDS"}
    IN  IF hits = {} THEN [err |-> "ValueError"]
        ELSE [err |-> "none",
              val |-> b.dims[CHOOSE i \in hits : \A j \in hits : i <= j]]

\* DMDimensions.replace_date_range
replace_date_range(d, new_range) ==
    LET s == is_static(d)
    IN  IF s.err # "none" THEN [err |-> s.err, obj |-> d]
        ELSE IF s.val THEN [err |-> "AssertionError", obj |-> d]
        ELSE set_T(d, replace_range(heap[T(d)], new_range))

----------------------------------------------------------------------------
(* The factories *)

\* coord.bounds = coord_bounds left out.
set_bounds_skipped(h, c, b) == h

\* coord.bounds = coord_bounds
set_bounds(h, c, b) == [h EXCEPT ![c].bounds = b]

\* isinstance(bounds_dim, DMBoundsDimension), for an argument that is either
\* an object of the heap or a string
is_bounds_dimension(h, bounds_dim) ==
    /\ bounds_dim.kind = "object"
    /\ issubclass(h[bounds_dim.ref].cls, "DMBoundsDimension")

\* DMCoordinateBounds.from_coordinate(coord, bounds_dim), run against heap h
\* with bs the bounds objects made so far.  A constructor that raises leaves
\* nothing behind.
bounds_from_coordinate(h, bs, c, bounds_dim) ==
    LET given == is_bounds_dimension(h, bounds_dim)
        h1 == IF given THEN h
              ELSE Append(h, NewCoordinate("DMBoundsDimension",
                                           [name |-> bounds_dim.val]))
        bd == IF given THEN bounds_dim.ref ELSE Len(h1)
        r == NewDims(h1, "DMCoordinateBounds",
                     [name |-> h[c].name, standard_name |-> h[c].standard_name,
                      units |-> h[c].units, dims |-> <<c, bd>>,
                      scalar_coords |-> {}])
        b == Len(bs) + 1
    IN  IF r.err # "none"
        THEN [err |-> r.err, heap |-> h, boundsObjs |-> bs, result |-> None]
        ELSE [err |-> "none", heap |-> set_bounds(h1, c, b),
              boundsObjs |-> Append(bs, r.obj), result |-> b]

\* dataclasses.asdict: a dataclass instance becomes the dict of its fields,
\* each value converted in turn, tuples and dicts member by member; n is
\* the nesting depth, and nesting deeper than the interpreter allows raises.
RECURSIVE asdict_coord(_, _, _, _), asdict_bounds(_, _, _, _)
asdict_coord(h, bs, c, n) ==
    IF n > MaxDepth THEN [err |-> "RecursionError"]
    ELSE LET fs == Fields(h[c].cls)
             sub == IF "bounds" \in fs /\ h[c].bounds # None
                    THEN asdict_bounds(h, bs, h[c].bounds, n + 1)
                    ELSE [err |-> "none", val |-> None]
         IN  IF sub.err # "none" THEN [err |-> sub.err]
             ELSE [err |-> "none",
                   val |-> [f \in fs |-> IF f = "bounds" THEN sub.val ELSE h[c][f]]]

asdict_bounds(h, bs, b, n) ==
    IF n > MaxDepth THEN [err |-> "RecursionError"]
    ELSE LET o == bs[b]
             slot(x) == IF x = None THEN [err |-> "none", val |-> None]
                        ELSE asdict_coord(h, bs, x, n + 1)
             ds == [i \in DOMAIN o.dims |-> slot(o.dims[i])]
             ax == [k \in SpatioTemporal |-> slot(o.axes[k])]
             px == [k \in SpatioTemporal |-> slot(o.phys_axes[k])]
         IN  IF \/ \E i \in DOMAIN ds : ds[i].err # "none"
                \/ \E k \in SpatioTemporal : ax[k].err # "none" \/ px[k].err # "none"
             THEN [err |-> "RecursionError"]
             ELSE [err |-> "none",
                   val |-> [dims |-> [i \in DOMAIN ds |-> ds[i].val],
                            scalar_coords |-> o.scalar_coords,
                            axes |-> [k \in SpatioTemporal |-> ax[k].val],
                            phys_axes |-> [k \in SpatioTemporal |-> px[k].val],
                            name |-> o.name, standard_name |-> o.standard_name,
                            units |-> o.units]]

\* The scalar classes: the fields __init__ requires ...
Required(cls) ==
    CASE cls = "DMScalarCoordinate" -> {"name", "standard_name", "units"}
      [] cls = "DMScalarVerticalCoordinate" -> {"name", "standard_name", "positive"}

\* ... and the defaults of the others.
Defaults(cls) ==
    CASE cls = "DMScalarCoordinate" ->
            [axis |-> "OTHER", bounds |-> None, value |-> None]
      [] cls = "DMScalarVerticalCoordinate" ->
            [units |-> "1", bounds |-> None, value |-> None]

\* cls(**kwargs) for a scalar class
new_scalar(cls, kwargs) ==
    IF ~ (DOMAIN kwargs \subseteq Fields(cls))
    THEN [err |-> "TypeError: unexpected keyword argument"]
    ELSE IF ~ (Required(cls) \subseteq DOMAIN kwargs)
    THEN [err |-> "TypeError: missing required argument"]
    ELSE [err |-> "none",
          val |-> NewCoordinate(cls,
                    [f \in Fields(cls) |->
                        IF f \in DOMAIN kwargs THEN kwargs[f] ELSE Defaults(cls)[f]])]

\* The type test the other way round: the source a subclass of the target.
type_mismatch_swapped(cls, coord_cls) == ~ issubclass(coord_cls, cls)

\* not issubclass(cls, coord.__class__)
type_mismatch(cls, coord_cls) == ~ issubclass(cls, coord_cls)

\* DMScalarCoordinateMixin.from_coordinate(coord, value), called on class cls
scalar_from_coordinate(h, bs, cls, c, value) ==
    IF type_mismatch(cls, h[c].cls)
    THEN [err |-> "ValueError: different DMCoordinate type"]
    ELSE LET d == asdict_coord(h, bs, c, 1)
         IN  IF d.err # "none" THEN [err |-> d.err]
             ELSE new_scalar(cls,
                    [f \in DOMAIN d.val \cup {"value"} |->
                        IF f = "value" THEN value ELSE d.val[f]])

----------------------------------------------------------------------------
(* Operations on the aggregate *)

DimsInputs == UNION {[1..n -> DimIds] : n \in 0..MaxDims}

ScalarInputs == SUBSET ScalarIds

Identity == [name |-> "tas", standard_name |-> "air_temperature", units |-> "K"]

Init ==
    /\ heap = Pool
    /\ boundsObjs = <<>>
    /\ dimsObj = NoObject
    /\ last = [op |-> "init"]

\* DMDimensions(dims, scalar_coords)
NewDimensions ==
    /\ last.op = "init"
    /\ \E dims \in DimsInputs, scalar_coords \in ScalarInputs :
         LET r == NewDims(heap, "DMDimensions",
                          [dims |-> dims, scalar_coords |-> scalar_coords])
         IN  /\ dimsObj' = r.obj
             /\ last' = [op |-> "new", cls |-> "DMDimensions", dims |-> dims,
                         scalar_coords |-> scalar_coords, err |-> r.err]
    /\ UNCHANGED <<heap, boundsObjs>>

\* cls(dims, scalar_coords, name, standard_name, units) for the subclasses
\* DMAuxiliaryCoordinate, DMCoordinateBounds and DMVariable
NewNamedDimensions ==
    /\ last.op = "init"
    /\ \E cls \in {"DMAuxiliaryCoordinate", "DMCoordinateBounds", "DMVariable"},
          dims \in DimsInputs, scalar_coords \in ScalarInputs :
         LET r == NewDims(heap, cls,
                          [dims |-> dims, scalar_coords |-> scalar_coords,
                           name |-> Identity.name,
                           standard_name |-> Identity.standard_name,
                           units |-> Identity.units])
         IN  /\ dimsObj' = r.obj
             /\ last' = [op |-> "new", cls |-> cls, dims |-> dims,
                         scalar_coords |-> scalar_coords, err |-> r.err]
    /\ UNCHANGED <<heap, boundsObjs>>

\* dimsObj.replace_date_range(new_range)
ReplaceDateRange ==
    /\ dimsObj # NoObject
    /\ \E new_range \in DateRanges \cup {FXDateRange} :
         LET s == is_static(dimsObj)
             r == replace_date_range(dimsObj, new_range)
         IN  /\ dimsObj' = r.obj
             /\ last' = [op |-> "replace_date_range", new_range |-> new_range,
                         before |-> dimsObj, static |-> s, err |-> r.err]
    /\ UNCHANGED <<heap, boundsObjs>>

\* dimsObj.is_static
IsStatic ==
    /\ dimsObj # NoObject
    /\ LET s == is_static(dimsObj)
       IN  last' = IF s.err = "none"
                   THEN [op |-> "is_static", err |-> s.err, result |-> s.val]
                   ELSE [op |-> "is_static", err |-> s.err]
    /\ UNCHANGED <<heap, boundsObjs, dimsObj>>

NextDims ==
    \/ NewDimensions
    \/ NewNamedDimensions
    \/ ReplaceDateRange
    \/ IsStatic

SpecDims == Init /\ [][NextDims]_vars


----------------------------------------------------------------------------
(* Operations of the factories *)

\* The coordinates the bounds factory is called on.
BoundsSources == {2, 3, 9, 10, 12}

\* Its bounds_dim argument: a DMBoundsDimension object or a raw name.
BoundsDimInputs ==
    {[kind |-> "object", ref |-> 10]}
        \cup {[kind |-> "str", val |-> n] : n \in BoundsNames}

ScalarClasses == {"DMScalarCoordinate", "DMScalarVerticalCoordinate"}

\* DMCoordinateBounds.from_coordinate(coord, bounds_dim)
BoundsFromCoordinate ==
    /\ Len(boundsObjs) < MaxBounds
    /\ \E c \in BoundsSources, bounds_dim \in BoundsDimInputs :
         LET r == bounds_from_coordinate(heap, boundsObjs, c, bounds_dim)
         IN  /\ heap' = r.heap
             /\ boundsObjs' = r.boundsObjs
             /\ last' = [op |-> "bounds_from_coordinate", coord |-> c,
                         bounds_dim |-> bounds_dim, err |-> r.err,
                         result |-> r.result]
    /\ UNCHANGED dimsObj

\* cls.from_coordinate(coord, value) for a scalar class cls
ScalarFromCoordinate ==
    /\ \E cls \in ScalarClasses, c \in DOMAIN heap, value \in ScalarValues :
         LET r == scalar_from_coordinate(heap, boundsObjs, cls, c, value)
         IN  last' = IF r.err = "none"
                     THEN [op |-> "scalar_from_coordinate", cls |-> cls,
                           coord |-> c, value |-> value, before |-> heap[c],
                           err |-> r.err, result |-> r.val]
                     ELSE [op |-> "scalar_from_coordinate", cls |-> cls,
                           coord |-> c, value |-> value, before |-> heap[c],
                           err |-> r.err]
    /\ UNCHANGED <<heap, boundsObjs, dimsObj>>

NextLink ==
    \/ BoundsFromCoordinate
    \/ ScalarFromCoordinate

SpecLink == Init /\ [][NextLink]_vars

----------------------------------------------------------------------------
(* Properties of the aggregate, checked under SpecDims *)

\* The positions of the entries of dims followed by those of scalar_coords.
Entries(dims, scalar_coords) == chain(dims, scalar_coords)

\* Two entries of dims and scalar_coords carry the same spatiotemporal kind.
SharedSpatioTemporal(es) ==
    \E i, j \in DOMAIN es :
        i # j /\ heap[es[i]].axis \in SpatioTemporal
              /\ heap[es[i]].axis = heap[es[j]].axis

\* The members of dims carrying axis kind k.
DimsWithAxis(dims, k) == {i \in DOMAIN dims : heap[dims[i]].axis = k}

\* C1: a Dimensions built from entries that are spatiotemporal or OTHER, the
\* spatiotemporal kinds pairwise distinct, is constructed, and for each k of
\* X, Y, Z, T axes[k] is the one member of dims with kind k, or None when
\* dims has none.
C1_AxesAreTheUniqueDims ==
    (/\ last.op = "new"
     /\ last.cls # "DMCoordinateBounds"
     /\ \A i \in DOMAIN Entries(last.dims, last.scalar_coords) :
            heap[Entries(last.dims, last.scalar_coords)[i]].axis
                \in SpatioTemporal \cup {"OTHER"}
     /\ ~ SharedSpatioTemporal(Entries(last.dims, last.scalar_coords)))
    => /\ last.err = "none"
       /\ dimsObj # NoObject
       /\ dimsObj.dims = last.dims
       /\ \A k \in SpatioTemporal :
            LET hits == DimsWithAxis(last.dims, k)
            IN  IF hits = {} THEN dimsObj.axes[k] = None
                ELSE /\ Cardinality(hits) = 1
                     /\ \A i \in hits : dimsObj.axes[k] = last.dims[i]

\* A Dimensions was built from three dimension coordinates, two of them of
\* kind OTHER, and an OTHER scalar coordinate, and its X slot is filled.
C1_Witness ==
    /\ last.op = "new"
    /\ last.err = "none"
    /\ Len(last.dims) = 3
    /\ Cardinality(DimsWithAxis(last.dims, "OTHER")) = 2
    /\ \E s \in last.scalar_coords : heap[s].axis = "OTHER"
    /\ dimsObj.axes["X"] # None

\* C2: constructing a Dimensions or one of its specializations from entries
\* two of which carry the same spatiotemporal kind fails with the
\* duplicate-axis error and produces no aggregate.
C2_DuplicateAxisFails ==
    (/\ last.op = "new"
     /\ SharedSpatioTemporal(Entries(last.dims, last.scalar_coords)))
    => /\ last.err = "ValueError: Duplicate definition of axis"
       /\ dimsObj = NoObject

\* A construction failed where dims alone has no duplicate and no member of
\* dims shares a kind with a scalar coordinate: the two are in scalar_coords.
C2_Witness ==
    /\ last.op = "new"
    /\ last.err = "ValueError: Duplicate definition of axis"
    /\ ~ SharedSpatioTemporal(last.dims)
    /\ \A i \in DOMAIN last.dims : \A s \in last.scalar_coords :
            heap[last.dims[i]].axis # heap[s].axis
    /\ dimsObj = NoObject

\* C3: in every constructed Dimensions, for each k of X, Y, Z, T, axes[k] is
\* no member of scalar_coords, and phys_axes[k] is the scalar coordinate
\* carrying k when there is one and axes[k] otherwise.
C3_PhysAxesOverlay ==
    dimsObj # NoObject =>
        \A k \in SpatioTemporal :
            /\ dimsObj.axes[k] \notin dimsObj.scalar_coords
            /\ LET sk == {s \in dimsObj.scalar_coords : heap[s].axis = k}
               IN  IF sk = {} THEN dimsObj.phys_axes[k] = dimsObj.axes[k]
                   ELSE dimsObj.phys_axes[k] \in sk

\* dims = (a Latitude), scalar_coords = {a scalar Vertical with value 500}:
\* the Z slot of axes is empty and that of phys_axes is the scalar coordinate.
C3_Witness ==
    /\ dimsObj # NoObject
    /\ Len(dimsObj.dims) = 1
    /\ heap[dimsObj.dims[1]].cls = "DMLatitudeCoordinate"
    /\ \E s \in dimsObj.scalar_coords :
        /\ dimsObj.scalar_coords = {s}
        /\ heap[s].cls = "DMScalarVerticalCoordinate"
        /\ heap[s].value = 500
        /\ dimsObj.phys_axes["Z"] = s
    /\ dimsObj.axes["Z"] = None

\* C4: replace_date_range on a static Dimensions fails; on a non-static one
\* it completes, and afterwards the T slot of axes holds a Time coordinate
\* whose range is the new one and whose other fields are those of the
\* previous T coordinate, the X, Y and Z slots unchanged.
C4_ReplaceDateRange ==
    last.op = "replace_date_range" =>
        LET old == last.before
            static == old.axes["T"] = None
                        \/ (/\ "range" \in DOMAIN heap[old.axes["T"]]
                            /\ heap[old.axes["T"]].range = FXDateRange)
        IN  IF static THEN last.err # "none"
            ELSE /\ last.err = "none"
                 /\ dimsObj.axes["T"] # None
                 /\ heap[dimsObj.axes["T"]] =
                        [heap[old.axes["T"]] EXCEPT !.range = last.new_range]
                 /\ \A k \in {"X", "Y", "Z"} : dimsObj.axes[k] = old.axes[k]

\* C7: a constructed CoordinateBounds has no scalar coordinates and two dims
\* of which exactly one is of kind BOUNDS, every other shape failing
\* construction; its coord accessor does not raise and returns the member of
\* dims that is not of kind BOUNDS.
C7_BoundsShape ==
    /\ (last.op = "new" /\ last.cls = "DMCoordinateBounds"
        /\ (\/ last.scalar_coords # {}
            \/ Len(last.dims) # 2
            \/ Cardinality(DimsWithAxis(last.dims, "BOUNDS")) # 1))
       => (last.err # "none" /\ dimsObj = NoObject)
    /\ \A b \in {dimsObj} \cup {boundsObjs[i] : i \in DOMAIN boundsObjs} :
        b.cls = "DMCoordinateBounds" =>
            /\ b.scalar_coords = {}
            /\ Len(b.dims) = 2
            /\ Cardinality(DimsWithAxis(b.dims, "BOUNDS")) = 1
            /\ coord(b).err = "none"
            /\ \A i \in DOMAIN b.dims :
                heap[b.dims[i]].axis # "BOUNDS" => coord(b).val = b.dims[i]

\* A CoordinateBounds was constructed with the BOUNDS member first.
C7_Witness ==
    /\ dimsObj # NoObject
    /\ dimsObj.cls = "DMCoordinateBounds"
    /\ heap[dimsObj.dims[1]].axis = "BOUNDS"
    /\ coord(dimsObj).val = dimsObj.dims[2]

\* C9: is_static of a Dimensions whose T slot is empty or holds a Time
\* coordinate is true iff the slot is empty or the coordinate's range is the
\* fixed/no-time sentinel.
C9_IsStatic ==
    (/\ last.op = "is_static"
     /\ (dimsObj.axes["T"] = None
            \/ heap[dimsObj.axes["T"]].cls = "DMTimeCoordinate"))
    => /\ last.err = "none"
       /\ last.result <=>
            (\/ dimsObj.axes["T"] = None
             \/ heap[dimsObj.axes["T"]].range = FXDateRange)

\* is_static answered true for a Dimensions whose only T coordinate is a
\* scalar coordinate.
C9_Witness ==
    /\ last.op = "is_static"
    /\ last.err = "none"
    /\ last.result
    /\ \E s \in dimsObj.scalar_coords : heap[s].axis = "T"

\* is_static answered false for a T dimension coordinate with no range set.
C9_WitnessDefaultRange ==
    /\ last.op = "is_static"
    /\ last.err = "none"
    /\ ~ last.result
    /\ heap[dimsObj.axes["T"]].range = NoRange


----------------------------------------------------------------------------
(* Properties of the factories, checked under SpecLink *)

\* The non-scalar class a scalar class specializes.
NonScalarBase(cls) ==
    CASE cls = "DMScalarCoordinate" -> "DMCoordinate"
      [] cls = "DMScalarVerticalCoordinate" -> "DMVerticalCoordinate"

\* C5 as stated: the scalar factory succeeds exactly when the target's
\* non-scalar base is the source's class or a superclass of it, and signals
\* the type-mismatch error in every other case.
C5_SucceedsForSubtypeSources ==
    last.op = "scalar_from_coordinate" =>
        IF NonScalarBase(last.cls) \in Bases(last.before.cls)
        THEN last.err = "none"
        ELSE last.err = "ValueError: different DMCoordinate type"

\* C5 amended: the scalar factory signals the type-mismatch error exactly
\* when the source's class is neither the target class nor one of the
\* target's base classes; so a scalar Vertical target rejects a
\* ParametricVertical, a Longitude and a generic Coordinate source, and a
\* Vertical source passes the test.
C5_TypeMismatchUnlessSourceIsBase ==
    last.op = "scalar_from_coordinate" =>
        /\ (last.err = "ValueError: different DMCoordinate type")
              <=> (last.before.cls \notin Bases(last.cls))
        /\ (last.cls = "DMScalarVerticalCoordinate"
              /\ last.before.cls \in {"DMParametricVerticalCoordinate",
                                      "DMLongitudeCoordinate", "DMCoordinate"})
              => last.err = "ValueError: different DMCoordinate type"
        /\ (last.cls = "DMScalarVerticalCoordinate"
              /\ last.before.cls = "DMVerticalCoordinate")
              => last.err # "ValueError: different DMCoordinate type"

\* The factory of the scalar Vertical class was handed a ParametricVertical
\* coordinate and raised the type-mismatch error.
C5_Witness ==
    /\ last.op = "scalar_from_coordinate"
    /\ last.cls = "DMScalarVerticalCoordinate"
    /\ last.before.cls = "DMParametricVerticalCoordinate"
    /\ last.err = "ValueError: different DMCoordinate type"

\* C6: for a source coordinate that passes the type test, with or without a
\* bounds back-reference, the scalar factory returns a scalar coordinate
\* whose fields equal the source's and whose value is the one given, and
\* the source is as it was.
C6_RoundTrip ==
    (/\ last.op = "scalar_from_coordinate"
     /\ last.before.cls \in Bases(last.cls))
    => /\ last.err = "none"
       /\ last.result.cls = last.cls
       /\ \A f \in {"name", "standard_name", "units", "axis", "bounds"}
                    \cup (Fields(last.before.cls) \ {"value"}) :
            last.result[f] = last.before[f]
       /\ last.result.value = last.value
       /\ heap[last.coord] = last.before

\* C6 where the code keeps it: the same round trip for a source whose
\* bounds back-reference is not set.
C6_RoundTripWithoutBounds ==
    (/\ last.op = "scalar_from_coordinate"
     /\ last.before.cls \in Bases(last.cls)
     /\ last.before.bounds = None)
    => /\ last.err = "none"
       /\ last.result.cls = last.cls
       /\ \A f \in {"name", "standard_name", "units", "axis", "bounds"}
                    \cup (Fields(last.before.cls) \ {"value"}) :
            last.result[f] = last.before[f]
       /\ last.result.value = last.value
       /\ heap[last.coord] = last.before

\* C8: the bounds factory, called on a coordinate that is not of kind
\* BOUNDS, returns a bounds object with the coordinate's name, standard_name
\* and units, whose dims are the coordinate and a BoundsDimension (made from
\* the name when a name was given), whose coord is the coordinate, and the
\* coordinate's bounds refers to it afterwards.
C8_BoundsFromCoordinate ==
    (/\ last.op = "bounds_from_coordinate"
     /\ heap[last.coord].axis # "BOUNDS")
    => /\ last.err = "none"
       /\ last.result \in DOMAIN boundsObjs
       /\ LET b == boundsObjs[last.result]
              c == last.coord
          IN  /\ b.cls = "DMCoordinateBounds"
              /\ b.name = heap[c].name
              /\ b.standard_name = heap[c].standard_name
              /\ b.units = heap[c].units
              /\ Len(b.dims) = 2
              /\ b.dims[1] = c
              /\ heap[b.dims[2]].cls = "DMBoundsDimension"
              /\ IF last.bounds_dim.kind = "str"
                 THEN /\ heap[b.dims[2]].name = last.bounds_dim.val
                      /\ b.dims[2] = Len(heap)
                      /\ b.dims[2] \notin DOMAIN Pool
                 ELSE b.dims[2] = last.bounds_dim.ref
              /\ coord(b) = [err |-> "none", val |-> c]
              /\ heap[c].bounds = last.result

\* The factory made the bounds of the Latitude from the name "lat_bnds".
C8_Witness ==
    /\ last.op = "bounds_from_coordinate"
    /\ last.err = "none"
    /\ heap[last.coord].cls = "DMLatitudeCoordinate"
    /\ last.bounds_dim = [kind |-> "str", val |-> "lat_bnds"]
    /\ heap[last.coord].bounds = last.result

\* == on coordinates: the same object, or objects of one class with equal fields.
CoordEq(x, y) == x = y \/ (x # None /\ y # None /\ heap[x] = heap[y])

\* == on DMCoordinateBounds objects, field by field.
BoundsEq(i, j) ==
    \/ i = j
    \/ LET a == boundsObjs[i]
           b == boundsObjs[j]
       IN  /\ Len(a.dims) = Len(b.dims)
           /\ \A k \in DOMAIN a.dims : CoordEq(a.dims[k], b.dims[k])
           /\ a.scalar_coords = b.scalar_coords
           /\ \A k \in SpatioTemporal :
                /\ CoordEq(a.axes[k], b.axes[k])
                /\ CoordEq(a.phys_axes[k], b.phys_axes[k])
           /\ a.name = b.name
           /\ a.standard_name = b.standard_name
           /\ a.units = b.units

\* C10 as stated: in every state each bounds object b the factory made has
\* b.coord.bounds = b, and each coordinate c with bounds set has
\* c.bounds.coord = c.
C10_EveryBoundsObjectLinked ==
    /\ \A i \in DOMAIN boundsObjs :
        /\ coord(boundsObjs[i]).err = "none"
        /\ heap[coord(boundsObjs[i]).val].bounds # None
        /\ BoundsEq(heap[coord(boundsObjs[i]).val].bounds, i)
    /\ \A c \in DOMAIN heap :
        heap[c].bounds # None =>
            coord(boundsObjs[heap[c].bounds]) = [err |-> "none", val |-> c]

\* The bounds objects the factory made from coordinate c.
MadeFrom(c) == {i \in DOMAIN boundsObjs : boundsObjs[i].dims[1] = c}

\* C10 amended: in every state each coordinate c with bounds set has
\* c.bounds.coord = c, and each bounds object b the factory made has b.coord
\* the coordinate it was made from, whose bounds refers to the bounds object
\* of the latest successful call on that coordinate: b itself unless a later
\* call on the same coordinate has replaced it.
C10_LatestBoundsObjectLinked ==
    /\ \A c \in DOMAIN heap :
        heap[c].bounds # None =>
            /\ heap[c].bounds \in DOMAIN boundsObjs
            /\ coord(boundsObjs[heap[c].bounds]) = [err |-> "none", val |-> c]
    /\ \A i \in DOMAIN boundsObjs :
        LET c == boundsObjs[i].dims[1]
        IN  /\ coord(boundsObjs[i]) = [err |-> "none", val |-> c]
            /\ heap[c].bounds \in MadeFrom(c)
            /\ \A j \in MadeFrom(c) : j <= heap[c].bounds

\* The factory was called twice on one coordinate with different bounds
\* dimensions: the coordinate refers to the second bounds object, which
\* differs from the first.
C10_Witness ==
    /\ Len(boundsObjs) = 2
    /\ boundsObjs[1].dims[1] = boundsObjs[2].dims[1]
    /\ heap[boundsObjs[1].dims[1]].bounds = 2
    /\ ~ BoundsEq(1, 2)

============================================================================
